---- MODULE Spec2Model ----
(***************************************************************************)
(* A model of fast_whisper's main.py: the ModelCache singleton and its     *)
(* ledger file, the ModelLoader background task, the RecordingThread       *)
(* state machine and the controller (WhisperTranscription) that starts and *)
(* stops the background threads.                                           *)
(***************************************************************************)
EXTENDS Naturals, Integers, Sequences, FiniteSets, TLC

VARIABLES
    instance,     \* ModelCache._instance: 0 (None) or the id of a ModelCache
    lock,         \* ModelCache._lock: 0 (free) or the thread holding it
    cache,        \* cache[i]: the dict self.cache of ModelCache object i (key -> handle)
    cache_file,   \* the ledger file on disk
    handles,      \* handles[h]: the cache key of WhisperModel object h, in creation order
    th,           \* th[t]: the state of thread t (a ModelLoader run or WhisperHub.init_cache)
    ctl_model,    \* WhisperTranscription.model: 0 (None) or a handle
    rt,           \* rt[w]: the state of RecordingThread object w
    pa_streams,   \* pa_streams[s]: the audio stream s ever opened, its owner and state
    wav_file,     \* the waveform file: whether it exists and the frames written
    stopper,      \* the position of the caller of RecordingThread.stop()
    ctl,          \* the fields of the WhisperTranscription controller
    uiq,          \* the queued signals the UI thread has still to deliver
    cthr,         \* cthr[x]: where thread x (the UI or the keyboard hook thread) is in controller code
    tt,           \* tt[n]: the state of TranscriptionThread object n
    key_down,     \* whether the hotkey is physically held down
    config,       \* the module's config dict (line 37), as far as the audio settings go
    config_file,  \* config.json on disk
    settings,     \* self.channels, self.rate and self.chunk of the controller
    fields,       \* the texts of channels_input, rate_input and chunk_input
    save_faults,  \* the number of save_config calls that failed
    editing       \* the input field with an edit that is not finished, if any

cacheVars == <<instance, lock, cache, cache_file, handles, th, ctl_model>>

\* the variables of the recording threads and of the controller
recVars == <<rt, pa_streams, wav_file, stopper>>

\* the variables of the audio settings
cfgVars == <<config, config_file, settings, fields, save_faults, editing>>

ctlVars == <<ctl, uiq, cthr, tt, key_down, cfgVars>>

vars == <<cacheVars, recVars, ctlVars>>

----------------------------------------------------------------------------
(* Bounds *)

\* the number of ModelLoader threads that share the ModelCache
NLoaders == 2

\* the number of RecordingThread objects the controller makes
MaxRec == 2

\* the number of chunks a recording run appends to its frames
MaxChunks == 2

\* the number of failures of the environment in a behaviour
MaxFaults == 1

----------------------------------------------------------------------------
(* Values *)

None == 0

\* the ModelLoader threads are 1..NLoaders
Loaders == 1..NLoaders

\* the thread of WhisperHub.init_cache (line 847)
HubThread == NLoaders + 1

Threads == Loaders \cup {HubThread}

\* (model_name, device, compute_type)
IdentitySeq == << <<"base", "cpu", "float32">>, <<"tiny", "cpu", "float32">> >>

Identities == { IdentitySeq[n] : n \in 1..Len(IdentitySeq) }

\* the identity config names (lines 456-458)
ConfigIdentity == <<"base", "cpu", "float32">>

cache_key(id) == id[1] \o "_" \o id[2] \o "_" \o id[3]

AllKeys == { cache_key(id) : id \in Identities }

\* what the ledger file can hold: nothing (no file), zero bytes, a pickled dict,
\* bytes on which pickle.load raises EOFError or UnpicklingError ("truncated"),
\* bytes on which it raises another exception, such as ValueError on b"Ixyz\n."
\* ("invalid")
Absent == [kind |-> "absent", keys |-> {}]

Empty == [kind |-> "empty", keys |-> {}]

Truncated == [kind |-> "truncated", keys |-> {}]

Invalid == [kind |-> "invalid", keys |-> {}]

Valid(ks) == [kind |-> "valid", keys |-> ks]

\* a ledger this program wrote holds at least one key (line 114)
LedgerStates ==
    {Absent, Empty, Truncated, Invalid} \cup { Valid(ks) : ks \in (SUBSET AllKeys) \ {{}} }

\* d[k] = v on a dict
DictSet(d, k, v) == [x \in (DOMAIN d) \cup {k} |-> IF x = k THEN v ELSE d[x]]

EmptyDict == [x \in {} |-> None]

\* the waveform file before any run has written it
NoFile ==
    [exists |-> FALSE, frames |-> <<>>, nchannels |-> None, sampwidth |-> None,
     framerate |-> None]

\* the threads that run controller code: the UI thread and the thread of the
\* keyboard hooks (lines 627-628)
CtlThreads == {"ui", "hook"}

\* a controller thread that runs no controller code; w is the RecordingThread
\* a wait() of the thread is about
IdleCtl == [pc |-> "idle", w |-> None]

\* WhisperTranscription.__init__, lines 410-429, and the buttons of setup_ui
\* (lines 593-595); nrec counts the RecordingThread objects made so far,
\* inputs the inputs of the user so far, and loader tells whether the
\* ModelLoader of line 462 still runs
NewCtl ==
    [is_recording |-> FALSE, hotkey_pressed |-> FALSE, recording_thread |-> None,
     transcription_thread |-> None, record_btn |-> FALSE, stop_btn |-> FALSE,
     status |-> "Ready", nrec |-> 0, loader |-> "running", inputs |-> 0,
     remove_punctuation |-> FALSE]

RecIds == 1..MaxRec

Sources == {"microphone", "computer_audio", "both"}

\* config's input_device_index and computer_device_index: None or a device
MicDevices == {None, 1}

ComputerDevices == {None, 2}

\* config.get("channels", 1) and config.get("rate", 16000), lines 438-439
Channels == 1

Rate == 16000

\* config.get("chunk", 1024), line 440
Chunk == 1024

\* the audio settings that are entered as numbers (lines 519-521)
SettingKeys == {"channels", "rate", "chunk"}

\* the defaults of lines 438-440, which lines 646, 657 and 668 repeat
Default(k) == IF k = "channels" THEN Channels ELSE IF k = "rate" THEN Rate ELSE Chunk

\* d.get(k, default) on a dict
DictGet(d, k, default) == IF k \in DOMAIN d THEN d[k] ELSE default

\* config.json as load_config reads it (lines 26-30) and save_config writes
\* it (lines 32-35): a JSON document, or what a failed write left of one
JsonFile(d) == [kind |-> "valid", data |-> d]

BrokenFile == [kind |-> "truncated", data |-> [x \in {} |-> 0]]

\* pyaudio's get_sample_size: the bytes of a sample of the format
get_sample_size(format) == IF format = "Int16" THEN 2 ELSE 3

\* __init__, lines 306-319; it is the list a for loop of run iterates over,
\* i its position in it
NewRec(src, mic, comp) ==
    [pc |-> "idle", input_source |-> src, mic_device_index |-> mic,
     computer_device_index |-> comp, is_recording |-> FALSE, audio |-> "none",
     streams |-> <<>>, it |-> <<>>, frames |-> <<>>, i |-> 0, events |-> <<>>,
     faults |-> {}, audio_format |-> "Int16", channels |-> Channels, rate |-> Rate,
     sample_width |-> None]

Progress(n) == <<"progress_update", n>>

ModelReady(h) == <<"model_ready", h>>

----------------------------------------------------------------------------
(* Thread state *)

NewThread(id, start) ==
    [pc |-> start, id |-> id, inst |-> None, model |-> None, ret |-> None,
     raised |-> FALSE, events |-> <<>>, faults |-> {}, loads |-> 0,
     calls |-> 0, corrupt |-> "no", hit |-> FALSE, metadata |-> {}]

key(t) == cache_key(th[t].id)

Goto(t, pc) == th' = [th EXCEPT ![t].pc = pc]

\* an exception leaves get_instance or get_model: ModelLoader.run catches it
\* (line 140); the init_cache thread dies of it
Raise(t, fault) ==
    th' = [th EXCEPT ![t].pc = IF t = HubThread THEN "done" ELSE "ml_except",
                     ![t].raised = TRUE,
                     ![t].faults = @ \cup {fault}]

----------------------------------------------------------------------------
(* ModelCache.get_instance, lines 63-68 *)

\* line 64: if cls._instance is None
gi_check1(t) ==
    /\ th[t].pc = "gi_check1"
    /\ Goto(t, IF instance = None THEN "gi_lock" ELSE "gi_ret")
    /\ UNCHANGED <<instance, lock, cache, cache_file, handles, ctl_model, recVars, ctlVars>>

\* line 65: with cls._lock
gi_lock(t) ==
    /\ th[t].pc = "gi_lock"
    /\ lock = None
    /\ lock' = t
    /\ Goto(t, "gi_check2")
    /\ UNCHANGED <<instance, cache, cache_file, handles, ctl_model, recVars, ctlVars>>

\* a double-checked lock without its second check
gi_check2_unchecked(t) ==
    /\ th[t].pc = "gi_check2"
    /\ Goto(t, "gi_construct")
    /\ UNCHANGED <<instance, lock, cache, cache_file, handles, ctl_model, recVars, ctlVars>>

\* line 66: if cls._instance is None, under the lock
gi_check2(t) ==
    /\ th[t].pc = "gi_check2"
    /\ Goto(t, IF instance = None THEN "gi_construct" ELSE "gi_unlock")
    /\ UNCHANGED <<instance, lock, cache, cache_file, handles, ctl_model, recVars, ctlVars>>

\* line 67: cls._instance = cls(); __init__ (lines 70-80) sets self.cache = {}
\* and makes the cache directory, which can raise (mkdir, or Path(None) when
\* config has no cache_dir); the with statement releases the lock
gi_construct(t) ==
    /\ th[t].pc = "gi_construct"
    /\ \/ /\ cache' = Append(cache, EmptyDict)
          /\ instance' = Len(cache) + 1
          /\ Goto(t, "gi_unlock")
          /\ UNCHANGED lock
       \/ /\ lock' = None
          /\ Raise(t, "ctor")
          /\ UNCHANGED <<instance, cache>>
    /\ UNCHANGED <<cache_file, handles, ctl_model, recVars, ctlVars>>

\* the end of the with block
gi_unlock(t) ==
    /\ th[t].pc = "gi_unlock"
    /\ lock' = None
    /\ Goto(t, "gi_ret")
    /\ UNCHANGED <<instance, cache, cache_file, handles, ctl_model, recVars, ctlVars>>

\* line 68: return cls._instance; the ModelLoader then emits progress 50
\* (line 136), WhisperHub.init_cache (line 870) is done
gi_ret(t) ==
    /\ th[t].pc = "gi_ret"
    /\ th' = [th EXCEPT ![t].inst = instance,
                        ![t].pc = IF t = HubThread THEN "done" ELSE "gm_check",
                        ![t].events = IF t = HubThread THEN @ ELSE Append(@, Progress(50))]
    /\ UNCHANGED <<instance, lock, cache, cache_file, handles, ctl_model, recVars, ctlVars>>

get_instance(t) ==
    \/ gi_check1(t)
    \/ gi_lock(t)
    \/ gi_check2(t)
    \/ gi_construct(t)
    \/ gi_unlock(t)
    \/ gi_ret(t)

----------------------------------------------------------------------------
(* ModelCache.get_model, lines 82-120 *)

\* lines 83-88: the memory cache is tried first
gm_check(t) ==
    /\ th[t].pc = "gm_check"
    /\ IF key(t) \in DOMAIN cache[th[t].inst]
       THEN th' = [th EXCEPT ![t].calls = @ + 1,
                             ![t].hit = TRUE,
                             ![t].ret = cache[th[t].inst][key(t)],
                             ![t].pc = "ml_finish"]
       ELSE th' = [th EXCEPT ![t].calls = @ + 1, ![t].pc = "gm_stat"]
    /\ UNCHANGED <<instance, lock, cache, cache_file, handles, ctl_model, recVars, ctlVars>>

\* line 91: self.cache_file.exists() and os.path.getsize(self.cache_file) > 0
gm_stat(t) ==
    /\ th[t].pc = "gm_stat"
    /\ Goto(t, IF cache_file.kind \in {"absent", "empty"} THEN "gm_create" ELSE "gm_read")
    /\ UNCHANGED <<instance, lock, cache, cache_file, handles, ctl_model, recVars, ctlVars>>

\* lines 92-102: open, pickle.load and the membership test; metadata is the
\* local variable of line 94, which is gone when get_model returns. Only EOFError and
\* UnpicklingError are caught: an OSError of open (an unreadable file, or one
\* that another thread removed since line 91) and any other exception of
\* pickle.load leave get_model
gm_read(t) ==
    /\ th[t].pc = "gm_read"
    /\ \/ Raise(t, "io_read")
       \/ /\ cache_file.kind = "absent"
          /\ Raise(t, "fnf")
       \/ /\ cache_file.kind \in {"empty", "truncated"}
          /\ th' = [th EXCEPT ![t].corrupt = "truncated", ![t].pc = "gm_remove"]
       \/ /\ cache_file.kind = "invalid"
          /\ th' = [th EXCEPT ![t].corrupt = "invalid",
                              ![t].pc = "ml_except",
                              ![t].raised = TRUE,
                              ![t].faults = @ \cup {"unpickle"}]
       \/ /\ cache_file.kind = "valid"
          /\ th' = [th EXCEPT ![t].metadata = cache_file.keys,
                              ![t].pc = IF key(t) \in cache_file.keys
                                        THEN "gm_reload" ELSE "gm_create"]
    /\ UNCHANGED <<instance, lock, cache, cache_file, handles, ctl_model, recVars, ctlVars>>

\* line 104: os.remove(self.cache_file), which raises when the file is gone
gm_remove(t) ==
    /\ th[t].pc = "gm_remove"
    /\ IF cache_file.kind = "absent"
       THEN Raise(t, "fnf") /\ UNCHANGED cache_file
       ELSE cache_file' = Absent /\ Goto(t, "gm_create")
    /\ UNCHANGED <<instance, lock, cache, handles, ctl_model, recVars, ctlVars>>

\* WhisperModel(model_name, device=device, compute_type=compute_type): the
\* external loader makes a new handle, or raises
WhisperModel(t, next) ==
    \/ /\ handles' = Append(handles, key(t))
       /\ th' = [th EXCEPT ![t].model = Len(handles) + 1,
                           ![t].loads = @ + 1,
                           ![t].pc = next]
    \/ /\ th' = [th EXCEPT ![t].loads = @ + 1,
                           ![t].metadata = {},
                           ![t].pc = "ml_except",
                           ![t].raised = TRUE,
                           ![t].faults = @ \cup {"loader"}]
       /\ UNCHANGED handles

\* line 98: the key is in the ledger
gm_reload(t) ==
    /\ th[t].pc = "gm_reload"
    /\ WhisperModel(t, "gm_reload_store")
    /\ UNCHANGED <<instance, lock, cache, cache_file, ctl_model, recVars, ctlVars>>

\* a ledger hit that rewrites the ledger as the create path does
gm_reload_store_rewrite(t) ==
    /\ th[t].pc = "gm_reload_store"
    /\ cache' = [cache EXCEPT ![th[t].inst] = DictSet(@, key(t), th[t].model)]
    /\ cache_file' = Valid(DOMAIN cache'[th[t].inst])
    /\ th' = [th EXCEPT ![t].metadata = {}, ![t].ret = th[t].model,
                        ![t].pc = "ml_finish"]
    /\ UNCHANGED <<instance, lock, handles, ctl_model, recVars, ctlVars>>

\* lines 99-100
gm_reload_store(t) ==
    /\ th[t].pc = "gm_reload_store"
    /\ cache' = [cache EXCEPT ![th[t].inst] = DictSet(@, key(t), th[t].model)]
    /\ th' = [th EXCEPT ![t].metadata = {}, ![t].ret = th[t].model,
                        ![t].pc = "ml_finish"]
    /\ UNCHANGED <<instance, lock, cache_file, handles, ctl_model, recVars, ctlVars>>

\* a create path that stores its model variable in the map whether or not the
\* loader returned
gm_create_store_always(t) ==
    /\ th[t].pc = "gm_create"
    /\ \/ /\ WhisperModel(t, "gm_store")
          /\ th'[t].pc = "gm_store"
          /\ UNCHANGED cache
       \/ /\ WhisperModel(t, "gm_store")
          /\ th'[t].pc = "ml_except"
          /\ cache' = [cache EXCEPT ![th[t].inst] = DictSet(@, key(t), None)]
    /\ UNCHANGED <<instance, lock, cache_file, ctl_model, recVars, ctlVars>>

\* line 107: create new model if not found in cache
gm_create(t) ==
    /\ th[t].pc = "gm_create"
    /\ WhisperModel(t, "gm_store")
    /\ UNCHANGED <<instance, lock, cache, cache_file, ctl_model, recVars, ctlVars>>

\* line 108
gm_store(t) ==
    /\ th[t].pc = "gm_store"
    /\ cache' = [cache EXCEPT ![th[t].inst] = DictSet(@, key(t), th[t].model)]
    /\ Goto(t, "gm_wopen")
    /\ UNCHANGED <<instance, lock, cache_file, handles, ctl_model, recVars, ctlVars>>

\* line 113: open(self.cache_file, 'wb') truncates the file; its failure is
\* caught at line 117 and get_model returns the model (line 120)
gm_wopen(t) ==
    /\ th[t].pc = "gm_wopen"
    /\ \/ /\ cache_file' = Empty
          /\ Goto(t, "gm_wmeta")
       \/ /\ th' = [th EXCEPT ![t].faults = @ \cup {"io_write"},
                              ![t].metadata = {},
                              ![t].ret = th[t].model,
                              ![t].pc = "ml_finish"]
          /\ UNCHANGED cache_file
    /\ UNCHANGED <<instance, lock, cache, handles, ctl_model, recVars, ctlVars>>

\* line 114: metadata = {k: None for k in self.cache}, the keys the map holds
\* now, in the local variable line 94 used
gm_wmeta(t) ==
    /\ th[t].pc = "gm_wmeta"
    /\ th' = [th EXCEPT ![t].metadata = DOMAIN cache[th[t].inst], ![t].pc = "gm_wdump"]
    /\ UNCHANGED <<instance, lock, cache, cache_file, handles, ctl_model, recVars, ctlVars>>

\* lines 115-120: metadata is dumped and the file closed, which is when the
\* bytes reach the file; a failing dump leaves what it wrote so far and is
\* caught at line 117
gm_wdump(t) ==
    /\ th[t].pc = "gm_wdump"
    /\ \/ /\ cache_file' = Valid(th[t].metadata)
          /\ th' = [th EXCEPT ![t].metadata = {}, ![t].ret = th[t].model,
                              ![t].pc = "ml_finish"]
       \/ /\ cache_file' \in {Empty, Truncated}
          /\ th' = [th EXCEPT ![t].faults = @ \cup {"io_write"},
                              ![t].metadata = {},
                              ![t].ret = th[t].model,
                              ![t].pc = "ml_finish"]
    /\ UNCHANGED <<instance, lock, cache, handles, ctl_model, recVars, ctlVars>>

get_model(t) ==
    \/ gm_check(t)
    \/ gm_stat(t)
    \/ gm_read(t)
    \/ gm_remove(t)
    \/ gm_reload(t)
    \/ gm_reload_store(t)
    \/ gm_create(t)
    \/ gm_store(t)
    \/ gm_wopen(t)
    \/ gm_wmeta(t)
    \/ gm_wdump(t)

----------------------------------------------------------------------------
(* ModelLoader.run, lines 132-142 *)

\* line 134
ml_start(t) ==
    /\ th[t].pc = "ml_start"
    /\ th' = [th EXCEPT ![t].events = Append(@, Progress(10)), ![t].pc = "gi_check1"]
    /\ UNCHANGED <<instance, lock, cache, cache_file, handles, ctl_model, recVars, ctlVars>>

\* a run that reports progress 100 on the failure path too
ml_except_100(t) ==
    /\ th[t].pc = "ml_except"
    /\ th' = [th EXCEPT ![t].events = @ \o <<Progress(100), ModelReady(None)>>,
                        ![t].pc = "done"]
    /\ UNCHANGED <<instance, lock, cache, cache_file, handles, ctl_model, recVars, ctlVars>>

\* lines 138-139, after get_model returned
ml_finish(t) ==
    /\ th[t].pc = "ml_finish"
    /\ th' = [th EXCEPT ![t].events = @ \o <<Progress(100), ModelReady(th[t].ret)>>,
                        ![t].pc = "done"]
    /\ UNCHANGED <<instance, lock, cache, cache_file, handles, ctl_model, recVars, ctlVars>>

\* lines 140-142
ml_except(t) ==
    /\ th[t].pc = "ml_except"
    /\ th' = [th EXCEPT ![t].events = Append(@, ModelReady(None)), ![t].pc = "done"]
    /\ UNCHANGED <<instance, lock, cache, cache_file, handles, ctl_model, recVars, ctlVars>>

ModelLoader_run(t) ==
    \/ ml_start(t)
    \/ get_instance(t)
    \/ get_model(t)
    \/ ml_finish(t)
    \/ ml_except(t)

RECURSIVE str(_)
\* str(n) of an integer: its decimal digits as character codes, after a
\* minus sign if it is negative
str(n) ==
    IF n < 0 THEN <<45>> \o str(0 - n)
    ELSE IF n < 10 THEN <<48 + n>>
    ELSE str(n \div 10) \o <<48 + (n % 10)>>

\* load_config (line 37), defining_all_config_variables_from_config (lines
\* 438-440) and the input fields of setup_ui (lines 519-521), for a
\* config.json that holds one of the dicts of ds
InitSettings(ds) ==
    /\ config \in ds
    /\ config_file = JsonFile(config)
    /\ settings = [k \in SettingKeys |-> DictGet(config, k, Default(k))]
    /\ fields = [k \in SettingKeys |-> str(settings[k])]
    /\ save_faults = 0
    /\ editing = "none"

\* WhisperHub.init_cache, lines 869-870, on its own thread
init_cache ==
    get_instance(HubThread)

\* the identities of the ModelLoader threads: the threads are alike, so one
\* assignment stands for those that permute it
LoaderIdentities ==
    { ids \in [Loaders -> 1..Len(IdentitySeq)] :
        \A t1, t2 \in Loaders : t1 <= t2 => ids[t1] <= ids[t2] }

InitCache ==
    /\ instance = None
    /\ lock = None
    /\ cache = <<>>
    /\ cache_file \in LedgerStates
    /\ handles = <<>>
    /\ \E ids \in LoaderIdentities :
         th = [t \in Threads |->
                 IF t = HubThread THEN NewThread(ConfigIdentity, "gi_check1")
                 ELSE NewThread(IdentitySeq[ids[t]], "ml_start")]
    /\ ctl_model = None
    /\ rt = [w \in RecIds |-> NewRec("microphone", None, None)]
    /\ pa_streams = <<>>
    /\ wav_file = NoFile
    /\ stopper = "idle"
    /\ ctl = NewCtl
    /\ uiq = <<>>
    /\ cthr = [x \in CtlThreads |-> IdleCtl]
    /\ tt = <<>>
    /\ key_down = FALSE
    /\ InitSettings({EmptyDict})

\* the ModelLoader threads and the shared ModelCache
NextCache ==
    \E t \in Loaders : ModelLoader_run(t)

SpecCache == InitCache /\ [][NextCache]_vars

\* the threads that race for the singleton: WhisperHub.init_cache and the
\* ModelLoader threads, up to their return from get_instance
NextInstance ==
    \/ \E t \in Loaders : ml_start(t) \/ get_instance(t)
    \/ init_cache

SpecInstance == InitCache /\ [][NextInstance]_vars

\* identities as config.json can name them (lines 456-458 pass its strings
\* on unchecked): model names, devices and compute types are any strings,
\* "int8_float32" being one of the loader's compute types
KeyIdentitySeq ==
    << <<"base", "cpu", "float32">>,
       <<"base", "cpu", "int8_float32">>,
       <<"base_cpu", "int8", "float32">> >>

\* the ModelLoader threads with identities of KeyIdentitySeq, on a ModelCache
\* without a ledger file
InitKeys ==
    /\ instance = None
    /\ lock = None
    /\ cache = <<>>
    /\ cache_file = Absent
    /\ handles = <<>>
    /\ \E ids \in [Loaders -> 1..Len(KeyIdentitySeq)] :
         /\ \A t1, t2 \in Loaders : t1 <= t2 => ids[t1] <= ids[t2]
         /\ th = [t \in Threads |->
                   IF t = HubThread THEN NewThread(ConfigIdentity, "gi_check1")
                   ELSE NewThread(KeyIdentitySeq[ids[t]], "ml_start")]
    /\ ctl_model = None
    /\ rt = [w \in RecIds |-> NewRec("microphone", None, None)]
    /\ pa_streams = <<>>
    /\ wav_file = NoFile
    /\ stopper = "idle"
    /\ ctl = NewCtl
    /\ uiq = <<>>
    /\ cthr = [x \in CtlThreads |-> IdleCtl]
    /\ tt = <<>>
    /\ key_down = FALSE
    /\ InitSettings({EmptyDict})

SpecKeys == InitKeys /\ [][NextCache]_vars

----------------------------------------------------------------------------
(* Claims about ModelCache and ModelLoader, under SpecCache *)

\* the handles the loader has made for cache key k
HandlesOf(k) == { h \in 1..Len(handles) : handles[h] = k }

\* the positions of a thread inside get_model
GetModelPcs ==
    {"gm_check", "gm_stat", "gm_read", "gm_remove", "gm_reload", "gm_reload_store",
     "gm_create", "gm_store", "gm_wopen", "gm_wmeta", "gm_wdump"}

ModelReadyEvents(t) ==
    { n \in 1..Len(th[t].events) : th[t].events[n][1] = "model_ready" }

\* C1: for every identity, at most one model handle exists at any time, and
\* all callers of get_model on the shared ModelCache for the same identity
\* receive the same handle.
C1_OneHandlePerIdentity ==
    /\ \A k \in AllKeys : Cardinality(HandlesOf(k)) <= 1
    /\ \A t1, t2 \in Loaders :
         (/\ th[t1].ret # None
          /\ th[t2].ret # None
          /\ th[t1].inst = th[t2].inst
          /\ key(t1) = key(t2)) => th[t1].ret = th[t2].ret

\* C4: once the in-memory map holds a handle for a key, the entry is never
\* evicted or replaced, and a get_model call for that key that starts
\* afterwards returns that handle without invoking the loader.
C4_MapEntryStable ==
    [][\A i \in 1..Len(cache) : \A k \in DOMAIN cache[i] :
          /\ k \in DOMAIN cache'[i]
          /\ cache'[i][k] = cache[i][k]
          /\ \A t \in Loaders :
               (/\ th[t].pc = "gm_check"
                /\ th'[t].pc # "gm_check"
                /\ th[t].inst = i
                /\ key(t) = k) => (/\ th'[t].ret = cache[i][k]
                                   /\ handles' = handles)]_vars

\* C7: under every interleaving of get_instance calls at most one ModelCache
\* is ever constructed, and every call that returns returns that instance.
C7_OneInstance ==
    /\ Len(cache) <= 1
    /\ \A t \in Threads :
         th[t].inst # None => (Len(cache) = 1 /\ th[t].inst = instance)

\* two threads raced into get_instance: one has returned the instance while
\* another, which saw None at line 64, is at the check under the lock
C7_Witness ==
    \E t1, t2 \in Threads :
        /\ t1 # t2
        /\ th[t1].inst # None
        /\ th[t1].inst = instance
        /\ th[t2].pc = "gi_check2"

\* C8: a get_model call that finds the ledger file with truncated or invalid
\* content (and meets no other failure) does not raise: it returns a handle,
\* and when it returns the ledger file is a freshly written ledger that
\* contains the requested key.
C8_CorruptLedgerReplaced ==
    [][\A t \in Loaders :
          (/\ th[t].pc \in GetModelPcs
           /\ th'[t].pc \notin GetModelPcs
           /\ th'[t].corrupt # "no"
           /\ th'[t].faults \subseteq {"unpickle"})
          => (/\ th'[t].pc = "ml_finish"
              /\ th'[t].ret # None
              /\ cache_file'.kind = "valid"
              /\ key(t) \in cache_file'.keys)]_vars

\* C9: a run whose only failures are I/O errors on the ledger file (reading
\* or writing) ends with get_model having returned a handle that is in the
\* in-memory map, and ModelLoader emits model_ready with that handle.
C9_LedgerIOErrorHarmless ==
    \A t \in Loaders :
        (/\ th[t].pc = "done"
         /\ th[t].faults # {}
         /\ th[t].faults \subseteq {"io_read", "io_write"})
        => (/\ ~th[t].raised
            /\ th[t].ret # None
            /\ key(t) \in DOMAIN cache[th[t].inst]
            /\ th[t].events[Len(th[t].events)] = ModelReady(th[t].ret))

\* C10: each ModelLoader run invokes get_model at most once and emits exactly
\* one model_ready, as its last event: after progress 10, 50, 100 with the
\* handle on success, and with None and without progress 100 when an
\* exception occurred.
C10_ModelLoaderEvents ==
    \A t \in Loaders :
        /\ th[t].calls <= 1
        /\ Cardinality(ModelReadyEvents(t)) <= 1
        /\ th[t].pc # "done" => ModelReadyEvents(t) = {}
        /\ th[t].pc = "done" =>
             IF th[t].raised
             THEN th[t].events \in { <<Progress(10), ModelReady(None)>>,
                                     <<Progress(10), Progress(50), ModelReady(None)>> }
             ELSE /\ th[t].ret # None
                  /\ th[t].events = <<Progress(10), Progress(50), Progress(100),
                                      ModelReady(th[t].ret)>>

\* one run ended with a handle and another one with an exception
C10_Witness ==
    \E t1, t2 \in Loaders :
        /\ th[t1].pc = "done" /\ ~th[t1].raised /\ th[t1].ret # None
        /\ th[t2].pc = "done" /\ th[t2].raised /\ "loader" \in th[t2].faults

\* C19: a key that is in the ledger stays in it after a later successful
\* get_model call: when a call that read the ledger without finding it
\* corrupt rewrites it successfully, every key it read (line 94) is among
\* those it collects to write (line 114) and in the file it has written.
C19_LedgerKeepsKeys ==
    [][\A t \in Loaders :
          /\ (th[t].pc = "gm_wmeta" /\ th'[t].pc = "gm_wdump" /\ th[t].corrupt = "no")
             => th[t].metadata \subseteq th'[t].metadata
          /\ (/\ th[t].pc = "gm_wdump"
              /\ th'[t].pc = "ml_finish"
              /\ "io_write" \notin th'[t].faults
              /\ th[t].corrupt = "no")
             => th[t].metadata \subseteq cache_file'.keys]_vars

\* the step of thread t in which the external loader raises
LoaderRaises(t) == "loader" \notin th[t].faults /\ "loader" \in th'[t].faults

\* the get_model call of thread t has removed the ledger file (line 104)
\* before it invoked the loader
RemovedLedger(t) == th[t].pc = "gm_create" /\ th[t].corrupt = "truncated"

\* what a failure of the loader does apart from the ledger: it leaves
\* get_model as an exception, without a result and without touching the
\* in-memory map or the ledger file
LoaderFailureStep(t) ==
    /\ th'[t].pc = "ml_except"
    /\ th'[t].raised
    /\ th'[t].ret = None
    /\ cache' = cache
    /\ cache_file' = cache_file

\* a call for the identity of a call whose loader raised, which finds no entry
\* in the in-memory map, goes on to the ledger and the loader
LaterCallLoadsAgain(t2) ==
    (/\ th[t2].pc = "gm_check"
     /\ th'[t2].pc # "gm_check"
     /\ \E t1 \in Loaders \ {t2} :
          /\ "loader" \in th[t1].faults
          /\ key(t1) = key(t2)
          /\ th[t1].inst = th[t2].inst
          /\ \A t3 \in Loaders \ {t1} : th[t3].model = None)
    => (th'[t2].pc = "gm_stat" /\ ~th'[t2].hit)

\* a call that missed the in-memory map and returns has invoked the loader
MissLoads ==
    \A t \in Loaders :
        (th[t].pc \in {"ml_finish", "done"} /\ ~th[t].raised /\ ~th[t].hit)
        => (th[t].loads = 1 /\ th[t].ret = th[t].model /\ th[t].model # None)

LedgerHitPcs == {"gm_check", "gm_stat", "gm_read", "gm_reload", "gm_reload_store"}

\* C24: a get_model call that misses the in-memory map and finds its key in a
\* readable ledger invokes the loader once, stores the handle the loader made
\* in the in-memory map, returns that handle, and no step of the call changes
\* the ledger file.
C24_LedgerHitReloads ==
    [][\A t \in Loaders :
          /\ (th'[t] # th[t] /\ th[t].pc \in LedgerHitPcs) => cache_file' = cache_file
          /\ (th[t].pc = "gm_read" /\ th'[t].pc = "gm_reload")
             => (/\ cache_file.kind = "valid"
                 /\ key(t) \in cache_file.keys
                 /\ ~th[t].hit
                 /\ th[t].loads = 0)
          /\ (th[t].pc = "gm_reload_store" /\ th'[t].pc # "gm_reload_store")
             => (/\ th[t].loads = 1
                 /\ th[t].model \in HandlesOf(key(t))
                 /\ key(t) \in DOMAIN cache'[th[t].inst]
                 /\ cache'[th[t].inst][key(t)] = th[t].model
                 /\ th'[t].ret = th[t].model
                 /\ th'[t].pc = "ml_finish"
                 /\ ~th'[t].raised)]_vars

\* a call has returned a handle it loaded on finding its key in a ledger that
\* holds every key, and no call has met a failure
C24_Witness ==
    \E t \in Loaders :
        /\ th[t].pc = "ml_finish"
        /\ ~th[t].hit
        /\ th[t].loads = 1
        /\ th[t].ret # None
        /\ cache[th[t].inst][key(t)] = th[t].ret
        /\ cache_file = Valid(AllKeys)
        /\ \A u \in Loaders : th[u].faults = {} /\ th[u].pc \notin {"gm_wopen", "gm_wmeta", "gm_wdump"}

\* C30: distinct model identities never share a cache entry: two calls for
\* get_model calls for triples that differ in a component use different cache
\* keys (line 83), and a call never returns the handle the loader made for
\* another identity.
C30_DistinctIdentitiesDistinctKeys ==
    \A t1, t2 \in Loaders :
        (th[t1].id # th[t2].id /\ th[t1].calls = 1 /\ th[t2].calls = 1)
        => (/\ key(t1) # key(t2)
            /\ th[t1].ret # None => th[t1].ret # th[t2].model)

\* C31: immediately after a get_model call that took the create path and
\* whose ledger write succeeded, the keys in the ledger file are the keys of
\* the in-memory map of the ModelCache that wrote it.
C31_LedgerEqualsMapKeys ==
    [][\A t \in Loaders :
          (/\ th[t].pc = "gm_wdump"
           /\ th'[t].pc = "ml_finish"
           /\ "io_write" \notin th'[t].faults)
          => cache_file' = Valid(DOMAIN cache'[th[t].inst])]_vars

----------------------------------------------------------------------------
(* RecordingThread, lines 302-407 *)

\* the streams run w has opened, and those of them not closed yet
OpenedBy(w) == { s \in 1..Len(pa_streams) : pa_streams[s].owner = w }

OpenStreams(w) == { s \in OpenedBy(w) : pa_streams[s].state # "closed" }

\* the failures of the environment so far: of the audio API, of the file
\* system and of the model, as the threads have recorded them
FaultCount ==
    Cardinality(UNION { { <<w, f>> : f \in rt[w].faults \ {"no_device"} } : w \in RecIds })
    + Cardinality({ i \in DOMAIN tt : tt[i].raised })

\* the environment can still fail
CanFail == FaultCount < MaxFaults

\* a signal of RecordingThread w is emitted: the receiver lives in the UI
\* thread, so the call of its slot is queued there (lines 726-727)
Emit(r, w, sig) ==
    /\ rt' = [rt EXCEPT ![w] = [r EXCEPT !.events = Append(@, sig)]]
    /\ uiq' = Append(uiq, <<sig, w>>)

\* an exception reaches the handler of line 385
Except(w, fault) ==
    rt' = [rt EXCEPT ![w].pc = "r_except", ![w].faults = @ \cup {fault}]

\* self.audio.open(...), lines 328-335 and 342-349: a new active stream
\* appended to self.streams, or an exception (the only outcome once
\* self.audio is None again)
audio_open(w, dev, next) ==
    \/ /\ rt[w].audio = "live"
       /\ pa_streams' = Append(pa_streams, [owner |-> w, dev |-> dev, state |-> "active"])
       /\ rt' = [rt EXCEPT ![w].streams = Append(@, Len(pa_streams) + 1), ![w].pc = next]
    \/ /\ rt[w].audio # "live" \/ CanFail
       /\ Except(w, "open")
       /\ UNCHANGED pa_streams

\* what a step of a recording thread leaves alone
recFrame == <<cacheVars, stopper, ctl, cthr, tt, key_down, cfgVars>>

\* QThread.start()
rec_start(w) ==
    /\ rt[w].pc = "idle"
    /\ rt' = [rt EXCEPT ![w].pc = "r_audio"]

\* line 323
r_audio(w) ==
    /\ rt[w].pc = "r_audio"
    /\ \/ rt' = [rt EXCEPT ![w].audio = "live", ![w].pc = "r_mic"]
       \/ CanFail /\ Except(w, "audio")
    /\ UNCHANGED <<pa_streams, wav_file, uiq, recFrame>>

\* lines 326-338
r_mic(w) ==
    /\ rt[w].pc = "r_mic"
    /\ IF rt[w].input_source \in {"microphone", "both"}
       THEN IF rt[w].mic_device_index # None
            THEN audio_open(w, rt[w].mic_device_index, "r_comp")
            ELSE Except(w, "no_device") /\ UNCHANGED pa_streams
       ELSE rt' = [rt EXCEPT ![w].pc = "r_comp"] /\ UNCHANGED pa_streams
    /\ UNCHANGED <<wav_file, uiq, recFrame>>

\* the computer-audio stream opened without the test of line 341
r_comp_unvalidated(w) ==
    /\ rt[w].pc = "r_comp"
    /\ IF rt[w].input_source \in {"computer_audio", "both"}
       THEN audio_open(w, rt[w].computer_device_index, "r_rec")
       ELSE rt' = [rt EXCEPT ![w].pc = "r_rec"] /\ UNCHANGED pa_streams
    /\ UNCHANGED <<wav_file, uiq, recFrame>>

\* lines 340-352
r_comp(w) ==
    /\ rt[w].pc = "r_comp"
    /\ IF rt[w].input_source \in {"computer_audio", "both"}
       THEN IF rt[w].computer_device_index # None
            THEN audio_open(w, rt[w].computer_device_index, "r_rec")
            ELSE Except(w, "no_device") /\ UNCHANGED pa_streams
       ELSE rt' = [rt EXCEPT ![w].pc = "r_rec"] /\ UNCHANGED pa_streams
    /\ UNCHANGED <<wav_file, uiq, recFrame>>

\* lines 354-356: self.audio.get_sample_size(...); frames = [];
\* self.is_recording = True
r_rec(w) ==
    /\ rt[w].pc = "r_rec"
    /\ IF rt[w].audio = "live"
       THEN rt' = [rt EXCEPT ![w].sample_width = get_sample_size(rt[w].audio_format),
                             ![w].frames = <<>>, ![w].is_recording = TRUE,
                             ![w].pc = "r_loop"]
       ELSE Except(w, "audio")
    /\ UNCHANGED <<pa_streams, wav_file, uiq, recFrame>>

\* a loop that tests the flag only once it holds a chunk
r_loop_until_chunk(w) ==
    /\ rt[w].pc = "r_loop"
    /\ rt' = [rt EXCEPT ![w].i = 1,
                        ![w].it = rt[w].streams,
                        ![w].pc = IF rt[w].is_recording \/ rt[w].frames = <<>>
                                  THEN (IF rt[w].streams = <<>> THEN "r_loop" ELSE "r_read")
                                  ELSE (IF rt[w].streams = <<>> THEN "r_save" ELSE "r_close")]
    /\ UNCHANGED <<pa_streams, wav_file, uiq, recFrame>>

\* line 358: while self.is_recording, and the start of the for of line 359
\* or of the one of line 368
r_loop(w) ==
    /\ rt[w].pc = "r_loop"
    /\ rt' = [rt EXCEPT ![w].i = 1,
                        ![w].it = rt[w].streams,
                        ![w].pc = IF rt[w].is_recording
                                  THEN (IF rt[w].streams = <<>> THEN "r_loop" ELSE "r_read")
                                  ELSE (IF rt[w].streams = <<>> THEN "r_save" ELSE "r_close")]
    /\ UNCHANGED <<pa_streams, wav_file, uiq, recFrame>>

\* after the body of the for of line 359 for stream i
ReadNext(r) ==
    IF r.i < Len(r.it) THEN [r EXCEPT !.i = @ + 1] ELSE [r EXCEPT !.pc = "r_loop"]

\* a read whose IOError is not caught inside the loop
r_read_ioerror_fatal(w) ==
    /\ rt[w].pc = "r_read"
    /\ \/ /\ pa_streams[rt[w].it[rt[w].i]].state = "active"
          /\ Len(rt[w].frames) < MaxChunks
          /\ rt' = [rt EXCEPT ![w] = ReadNext([@ EXCEPT !.frames = Append(@, rt[w].it[rt[w].i])])]
       \/ /\ \/ pa_streams[rt[w].it[rt[w].i]].state # "active"
             \/ CanFail
             \/ Len(rt[w].frames) >= MaxChunks
          /\ Except(w, "ioerror")
    /\ UNCHANGED <<pa_streams, wav_file, uiq, recFrame>>

\* a read whose chunk is put in front of the buffer instead of behind it
r_read_prepend(w) ==
    /\ rt[w].pc = "r_read"
    /\ \/ /\ pa_streams[rt[w].it[rt[w].i]].state = "active"
          /\ Len(rt[w].frames) < MaxChunks
          /\ rt' = [rt EXCEPT ![w] = ReadNext([@ EXCEPT !.frames = <<rt[w].it[rt[w].i]>> \o @])]
       \/ /\ pa_streams[rt[w].it[rt[w].i]].state # "active" \/ CanFail
          /\ Except(w, "read")
    /\ UNCHANGED <<pa_streams, wav_file, uiq, recFrame>>

\* lines 360-365: one chunk is read from stream i and appended; an IOError
\* is logged and the loop goes on; another exception leaves the try. Once
\* MaxChunks chunks are captured every further read is one that fails
r_read(w) ==
    /\ rt[w].pc = "r_read"
    /\ \/ /\ pa_streams[rt[w].it[rt[w].i]].state = "active"
          /\ Len(rt[w].frames) < MaxChunks
          /\ rt' = [rt EXCEPT ![w] = ReadNext([@ EXCEPT !.frames = Append(@, rt[w].it[rt[w].i])])]
       \/ /\ \/ pa_streams[rt[w].it[rt[w].i]].state # "active"
             \/ CanFail
             \/ Len(rt[w].frames) >= MaxChunks
          /\ rt' = [rt EXCEPT ![w] = ReadNext([@ EXCEPT !.faults = @ \cup {"ioerror"}])]
       \/ /\ pa_streams[rt[w].it[rt[w].i]].state # "active" \/ CanFail
          /\ Except(w, "read")
    /\ UNCHANGED <<pa_streams, wav_file, uiq, recFrame>>

\* lines 368-371: stream.stop_stream(); stream.close() for stream i, and
\* self.streams = [] after the last one. Either call can raise, and
\* stop_stream raises on a closed stream
r_close(w) ==
    /\ rt[w].pc = "r_close"
    /\ LET s == rt[w].it[rt[w].i] IN
       \/ /\ pa_streams[s].state # "closed"
          /\ pa_streams' = [pa_streams EXCEPT ![s].state = "closed"]
          /\ rt' = [rt EXCEPT ![w] = IF @.i < Len(@.it)
                                     THEN [@ EXCEPT !.i = @ + 1]
                                     ELSE [@ EXCEPT !.streams = <<>>, !.pc = "r_save"]]
       \/ /\ pa_streams[s].state = "closed" \/ CanFail
          /\ \E st \in IF pa_streams[s].state = "closed" THEN {"closed"}
                       ELSE {pa_streams[s].state, "stopped"} :
               pa_streams' = [pa_streams EXCEPT ![s].state = st]
          /\ Except(w, "close")
    /\ UNCHANGED <<wav_file, uiq, recFrame>>

\* a save that emits recording_complete before it writes the file
r_save_emit_first(w) ==
    /\ rt[w].pc = "r_save"
    /\ IF rt[w].frames # <<>>
       THEN \/ /\ wav_file' = [exists |-> TRUE, frames |-> rt[w].frames,
                                 nchannels |-> rt[w].channels,
                                 sampwidth |-> rt[w].sample_width,
                                 framerate |-> rt[w].rate]
               /\ Emit([rt[w] EXCEPT !.pc = "r_finally"], w, "recording_complete")
            \/ /\ CanFail
               /\ rt' = [rt EXCEPT ![w].pc = "r_finally",
                                   ![w].faults = @ \cup {"save"},
                                   ![w].events = @ \o <<"recording_complete", "error_occurred">>]
               /\ uiq' = uiq \o << <<"recording_complete", w>>, <<"error_occurred", w>> >>
               /\ UNCHANGED wav_file
       ELSE /\ rt' = [rt EXCEPT ![w].pc = "r_finally"]
            /\ UNCHANGED <<wav_file, uiq, recFrame>>
    /\ UNCHANGED <<pa_streams, recFrame>>

\* a save without the test of line 374: the file is written and
\* recording_complete emitted even with no frames
r_save_always(w) ==
    /\ rt[w].pc = "r_save"
    /\ wav_file' = [exists |-> TRUE, frames |-> rt[w].frames,
                    nchannels |-> rt[w].channels,
                    sampwidth |-> rt[w].sample_width,
                    framerate |-> rt[w].rate]
    /\ Emit([rt[w] EXCEPT !.pc = "r_finally"], w, "recording_complete")
    /\ UNCHANGED <<pa_streams, recFrame>>

\* lines 374-383: the frames, if any, are written to the waveform file and
\* recording_complete is emitted; a failure of the write emits error_occurred
r_save(w) ==
    /\ rt[w].pc = "r_save"
    /\ IF rt[w].frames # <<>>
       THEN \/ /\ wav_file' = [exists |-> TRUE, frames |-> rt[w].frames,
                                 nchannels |-> rt[w].channels,
                                 sampwidth |-> rt[w].sample_width,
                                 framerate |-> rt[w].rate]
               /\ Emit([rt[w] EXCEPT !.pc = "r_finally"], w, "recording_complete")
            \/ /\ CanFail
               /\ Emit([rt[w] EXCEPT !.pc = "r_finally", !.faults = @ \cup {"save"}],
                       w, "error_occurred")
               /\ UNCHANGED wav_file
       ELSE /\ rt' = [rt EXCEPT ![w].pc = "r_finally"]
            /\ UNCHANGED <<wav_file, uiq, recFrame>>
    /\ UNCHANGED <<pa_streams, recFrame>>

\* lines 385-387
r_except(w) ==
    /\ rt[w].pc = "r_except"
    /\ Emit([rt[w] EXCEPT !.pc = "r_finally"], w, "error_occurred")
    /\ UNCHANGED <<pa_streams, wav_file, recFrame>>

\* the streams of S closed
CloseAll(pst, S) ==
    [s \in DOMAIN pst |-> IF s \in S THEN [pst[s] EXCEPT !.state = "closed"] ELSE pst[s]]

\* a cleanup that closes the streams but leaves the audio API instance alive
cleanup_no_terminate(w) ==
    { <<[rt[w] EXCEPT !.streams = <<>>, !.is_recording = FALSE],
        CloseAll(pa_streams, { rt[w].streams[j] : j \in 1..Len(rt[w].streams) })>> }

\* cleanup_resources, lines 391-403: what it can leave of the thread's
\* fields and of the streams. The streams are closed in turn; is_active
\* raises on a closed stream, and stop_stream or close can raise; the
\* exception is caught and logged (line 402), which skips the rest: the
\* streams after it, self.streams = [], the terminate and the flag
cleanup_resources(w) ==
    LET r == rt[w]
        ss == r.streams
        n == Len(ss)
        first(k) == { ss[j] : j \in 1..k }
        ok(k) == \A j \in 1..k : pa_streams[ss[j]].state # "closed"
    IN  { <<[r EXCEPT !.streams = <<>>,
                      !.audio = IF @ = "live" THEN "terminated" ELSE @,
                      !.is_recording = FALSE],
            CloseAll(pa_streams, first(n))>> : x \in IF ok(n) THEN {1} ELSE {} }
        \cup
        UNION { { <<[r EXCEPT !.faults = @ \cup {"close"}],
                    [CloseAll(pa_streams, first(k)) EXCEPT ![ss[k + 1]].state = st]>> :
                  st \in IF pa_streams[ss[k + 1]].state = "closed" THEN {"closed"}
                         ELSE {pa_streams[ss[k + 1]].state, "stopped"} } :
                k \in { k \in 0..(n - 1) :
                         ok(k) /\ (CanFail \/ pa_streams[ss[k + 1]].state = "closed") } }

\* lines 388-389: finally: self.cleanup_resources(); then run returns and the
\* thread has finished
r_finally(w) ==
    /\ rt[w].pc = "r_finally"
    /\ \E res \in cleanup_resources(w) :
         /\ rt' = [rt EXCEPT ![w] = [res[1] EXCEPT !.pc = "finished"]]
         /\ pa_streams' = res[2]
    /\ UNCHANGED <<wav_file, uiq, recFrame>>

\* RecordingThread.run, lines 321-389
RecordingThread_run(w) ==
    \/ r_audio(w)
    \/ r_mic(w)
    \/ r_comp(w)
    \/ r_rec(w)
    \/ r_loop(w)
    \/ r_read(w)
    \/ r_close(w)
    \/ r_save(w)
    \/ r_except(w)
    \/ r_finally(w)

isRunning(w) == rt[w].pc \notin {"idle", "finished"}

\* a device id the input source of RecordingThread w requires is missing
MissingDevice(w) ==
    \/ rt[w].input_source \in {"microphone", "both"} /\ rt[w].mic_device_index = None
    \/ rt[w].input_source \in {"computer_audio", "both"} /\ rt[w].computer_device_index = None

----------------------------------------------------------------------------
(* One RecordingThread and a caller of its stop() *)

\* the RecordingThread of this specification
W1 == CHOOSE w \in RecIds : \A v \in RecIds : w <= v

start ==
    /\ rec_start(W1)
    /\ UNCHANGED <<cacheVars, pa_streams, wav_file, stopper, ctlVars>>

run ==
    RecordingThread_run(W1)

\* line 406, called as stop_recording calls it (lines 742-743): on a thread
\* that is running
stop_flag ==
    /\ stopper = "idle"
    /\ isRunning(W1)
    /\ rt' = [rt EXCEPT ![W1].is_recording = FALSE]
    /\ stopper' = "waiting"
    /\ UNCHANGED <<cacheVars, pa_streams, wav_file, ctlVars>>

\* line 407: self.wait() returns when the thread has finished
stop_wait ==
    /\ stopper = "waiting"
    /\ ~isRunning(W1)
    /\ stopper' = "returned"
    /\ UNCHANGED <<cacheVars, rt, pa_streams, wav_file, ctlVars>>

InitRec ==
    /\ instance = None
    /\ lock = None
    /\ cache = <<>>
    /\ cache_file = Absent
    /\ handles = <<>>
    /\ th = <<>>
    /\ ctl_model = None
    /\ \E src \in Sources, mic \in MicDevices, comp \in ComputerDevices :
         rt = [w \in RecIds |-> NewRec(src, mic, comp)]
    /\ pa_streams = <<>>
    /\ wav_file = NoFile
    /\ stopper = "idle"
    /\ ctl = NewCtl
    /\ uiq = <<>>
    /\ cthr = [x \in CtlThreads |-> IdleCtl]
    /\ tt = <<>>
    /\ key_down = FALSE
    /\ InitSettings({EmptyDict})

NextRec ==
    \/ start
    \/ run
    \/ stop_flag
    \/ stop_wait

SpecRec == InitRec /\ [][NextRec]_vars

\* the scheduler runs the recording thread as long as it has a step to take,
\* and a wait() on a finished thread returns
FairSpecRec == SpecRec /\ WF_vars(run) /\ WF_vars(stop_wait)

----------------------------------------------------------------------------
(* Claims about RecordingThread, under SpecRec and FairSpecRec *)

\* C2: whenever stop() is called on a started recording thread, at any point
\* of its run, the thread eventually finishes and stop() returns.
C2_StopReturns ==
    (stopper = "waiting") ~> (rt[W1].pc = "finished" /\ stopper = "returned")

\* C3: a run with input_source "both" and only a microphone device id ends
\* with error_occurred and without having opened any audio stream.
C3_BothMicOnlyOpensNothing ==
    \A w \in RecIds :
        (/\ rt[w].pc = "finished"
         /\ rt[w].input_source = "both"
         /\ rt[w].mic_device_index # None
         /\ rt[w].computer_device_index = None)
        => (/\ rt[w].events = <<"error_occurred">>
            /\ OpenedBy(w) = {})

\* C5: when a run has finished by any of its paths (stop during capture,
\* missing device id, stream-open failure, an exception of a chunk read) in
\* which no stop_stream or close call failed, every stream the run opened is
\* closed and its audio API instance is terminated.
C5_NoOpenStreamsAfterRun ==
    \A w \in RecIds :
        (rt[w].pc = "finished" /\ "close" \notin rt[w].faults)
        => (/\ OpenStreams(w) = {}
            /\ rt[w].streams = <<>>
            /\ rt[w].audio # "live")

\* a run that had opened two streams and captured a chunk has finished after
\* an exception of a chunk read
C5_Witness ==
    \E w \in RecIds :
        /\ rt[w].pc = "finished"
        /\ Cardinality(OpenedBy(w)) = 2
        /\ rt[w].frames # <<>>
        /\ "read" \in rt[w].faults
        /\ "close" \notin rt[w].faults

\* C14: a run whose input source requires a device id that is missing never
\* enters the capture loop, emits no recording_complete, writes no waveform
\* file, and has emitted error_occurred exactly once when it has finished.
C14_MissingDeviceEndsInError ==
    \A w \in RecIds :
        MissingDevice(w)
        => (/\ rt[w].pc \notin {"r_rec", "r_loop", "r_read", "r_close", "r_save"}
            /\ rt[w].frames = <<>>
            /\ wav_file = NoFile
            /\ rt[w].events \in {<<>>, <<"error_occurred">>}
            /\ rt[w].pc = "finished" => rt[w].events = <<"error_occurred">>)

\* a run with source "both" and only the microphone device has finished
C14_Witness ==
    \E w \in RecIds :
        /\ rt[w].pc = "finished"
        /\ rt[w].input_source = "both"
        /\ rt[w].mic_device_index # None
        /\ rt[w].computer_device_index = None
        /\ rt[w].events = <<"error_occurred">>

\* the j-th stream RecordingThread w opened
StreamNo(w, j) ==
    CHOOSE st \in OpenedBy(w) : Cardinality({ u \in OpenedBy(w) : u < st }) = j - 1

\* C15: a run that captured at least one chunk and was stopped, with no
\* exception on its way out, has written one waveform file with the
\* session's channel count, sample width and rate whose frames are the
\* chunks read, in read order, and has emitted recording_complete once and
\* nothing else; when no read failed the chunks are whole rounds over the
\* open streams in the order the streams were opened.
C15_FileHoldsChunksInReadOrder ==
    \A w \in RecIds :
        (/\ rt[w].pc = "finished"
         /\ rt[w].frames # <<>>
         /\ rt[w].faults \subseteq {"ioerror"})
        => (/\ wav_file.exists
            /\ wav_file.frames = rt[w].frames
            /\ wav_file.nchannels = Channels
            /\ wav_file.framerate = Rate
            /\ wav_file.sampwidth = get_sample_size(rt[w].audio_format)
            /\ rt[w].events = <<"recording_complete">>
            /\ rt[w].faults = {}
               => LET n == Cardinality(OpenedBy(w)) IN
                  /\ Len(rt[w].frames) % n = 0
                  /\ \A k \in 1..Len(rt[w].frames) :
                       rt[w].frames[k] = StreamNo(w, ((k - 1) % n) + 1))

\* a stopped run over two streams has written a round of two chunks
C15_Witness ==
    \E w \in RecIds :
        /\ rt[w].pc = "finished"
        /\ rt[w].faults = {}
        /\ Cardinality(OpenedBy(w)) = 2
        /\ Len(rt[w].frames) = 2
        /\ wav_file.exists
        /\ stopper = "returned"

\* C16: a run that was stopped with no chunk captured, with no exception on
\* its way out, has written no file and has emitted neither
\* recording_complete nor error_occurred.
C16_NoChunksNoFileNoEvent ==
    \A w \in RecIds :
        (/\ rt[w].pc = "finished"
         /\ rt[w].frames = <<>>
         /\ rt[w].faults \subseteq {"ioerror"})
        => (/\ wav_file = NoFile
            /\ rt[w].events = <<>>)

\* a run whose only read failed has been stopped and has finished
C16_Witness ==
    \E w \in RecIds :
        /\ rt[w].pc = "finished"
        /\ rt[w].frames = <<>>
        /\ rt[w].faults = {"ioerror"}
        /\ OpenedBy(w) # {}
        /\ stopper = "returned"

\* C20: an IOError of a chunk read does not end the session: the step that
\* meets it appends nothing, emits nothing and goes on with the next stream
\* of the iteration or with the next iteration; and a run whose only failures
\* were such IOErrors, stopped after a successful read, has written the file
\* and has emitted recording_complete and no error_occurred.
C20_TransientIOErrorSkipped ==
    /\ [][\A w \in RecIds :
            ("ioerror" \notin rt[w].faults /\ "ioerror" \in rt'[w].faults)
            => (/\ rt'[w].frames = rt[w].frames
                /\ rt'[w].events = rt[w].events
                /\ IF rt[w].i < Len(rt[w].it)
                   THEN rt'[w].pc = "r_read" /\ rt'[w].i = rt[w].i + 1
                   ELSE rt'[w].pc = "r_loop")]_vars
    /\ [](\A w \in RecIds :
            (/\ rt[w].pc = "finished"
             /\ rt[w].faults = {"ioerror"}
             /\ rt[w].frames # <<>>)
            => (/\ rt[w].events = <<"recording_complete">>
                /\ wav_file.exists
                /\ wav_file.frames = rt[w].frames))

\* a run over two streams whose read of the first stream failed and whose
\* read of the second succeeded has been stopped and has finished
C20_Witness ==
    \E w \in RecIds :
        /\ rt[w].pc = "finished"
        /\ Cardinality(OpenedBy(w)) = 2
        /\ rt[w].faults = {"ioerror"}
        /\ rt[w].frames # <<>>
        /\ rt[w].frames[1] = StreamNo(w, 2)
        /\ rt[w].events = <<"recording_complete">>

\* C22: when a stop_stream or close call on one stream failed while the run
\* was shutting down, the finished run has still closed every other stream it
\* opened and terminated its audio API instance, and has emitted
\* error_occurred.
C22_CloseFailureStillCleansUp ==
    \A w \in RecIds :
        (rt[w].pc = "finished" /\ "close" \in rt[w].faults)
        => (/\ Cardinality(OpenStreams(w)) <= 1
            /\ rt[w].audio = "terminated"
            /\ "error_occurred" \in { rt[w].events[n] : n \in 1..Len(rt[w].events) })

\* a step of run w inside the capture loop, taken with the stop flag set
StoppedLoopStep(w) ==
    /\ rt[w].pc \in {"r_loop", "r_read"}
    /\ ~rt[w].is_recording
    /\ rt'[w] # rt[w]

\* C23 as stated: after stop() has set the stop flag during capture, the
\* worker performs at most one further chunk read before it leaves the capture
\* loop: a read made with the flag set is not followed by another read.
C23_OneReadAfterStop ==
    [][\A w \in RecIds :
          (StoppedLoopStep(w) /\ rt[w].pc = "r_read") => rt'[w].pc # "r_read"]_vars

\* C23 as amended: after stop() has set the stop flag during capture, the
\* worker finishes the pass over its streams it is in, which is at most one
\* further read of each open stream, and leaves the capture loop at the next
\* test of the flag.
C23_OnePassAfterStop ==
    [][\A w \in RecIds :
          StoppedLoopStep(w) =>
            IF rt[w].pc = "r_loop"
            THEN rt'[w].pc \in {"r_close", "r_save"}
            ELSE \/ /\ rt'[w].pc = "r_read"
                    /\ rt'[w].it = rt[w].it
                    /\ rt'[w].i = rt[w].i + 1
                    /\ rt'[w].i <= Len(rt[w].it)
                 \/ rt'[w].pc \in {"r_loop", "r_except"}]_vars

\* stop() has set the flag while the worker is about to read the first of its
\* two streams
C23_Witness ==
    \E w \in RecIds :
        /\ stopper = "waiting"
        /\ ~rt[w].is_recording
        /\ rt[w].pc = "r_read"
        /\ rt[w].i = 1
        /\ Len(rt[w].it) = 2

\* C27: each run emits at most one terminal event: recording_complete and
\* error_occurred exclude each other and neither is emitted twice, on every
\* path (the events of a run are those it has emitted so far, in order).
C27_AtMostOneTerminalEvent ==
    \A w \in RecIds :
        /\ Len(rt[w].events) <= 1
        /\ \A n \in 1..Len(rt[w].events) :
             rt[w].events[n] \in {"recording_complete", "error_occurred"}

\* a run that captured a chunk and whose file write failed has finished with
\* error_occurred as its one event
C27_Witness ==
    \E w \in RecIds :
        /\ rt[w].pc = "finished"
        /\ rt[w].frames # <<>>
        /\ "save" \in rt[w].faults
        /\ rt[w].events = <<"error_occurred">>
        /\ ~wav_file.exists

----------------------------------------------------------------------------
(* WhisperTranscription, lines 409-804: the controller. Its code is run by  *)
(* the UI thread (button clicks, slots of queued signals) and by the thread *)
(* of the keyboard hooks (lines 627-628)                                    *)

\* what a step of the controller or of a TranscriptionThread leaves alone
ctlFrame == <<instance, lock, cache, cache_file, handles, th, stopper, cfgVars>>

\* self.recording_thread and self.recording_thread.isRunning(), lines 707, 742
HasRunning == ctl.recording_thread # None /\ isRunning(ctl.recording_thread)

StartPcs == {"sr_check", "sr_set", "sr_btn", "sr_prev", "sr_wait", "sr_new"}

\* the number of segments a transcription produces
MaxSegments == 2

\* the number of inputs of the user: clicks, and presses and releases of the
\* hotkey that the controller acts on
MaxInputs == 3

\* the user can make another input
CanInput == ctl.inputs < MaxInputs

\* a call of start_recording can still make a RecordingThread of RecIds
CanStart ==
    ctl.nrec + Cardinality({ x \in CtlThreads : cthr[x].pc \in StartPcs }) < MaxRec

CtlGoto(x, pc) == cthr' = [cthr EXCEPT ![x].pc = pc]

\* lines 698-699
sr_check(x) ==
    /\ cthr[x].pc = "sr_check"
    /\ CtlGoto(x, IF ctl.is_recording THEN "idle" ELSE "sr_set")
    /\ UNCHANGED <<ctl, ctl_model, rt, pa_streams, wav_file, uiq, tt, key_down, ctlFrame>>

\* line 702
sr_set(x) ==
    /\ cthr[x].pc = "sr_set"
    /\ ctl' = [ctl EXCEPT !.is_recording = TRUE]
    /\ CtlGoto(x, "sr_btn")
    /\ UNCHANGED <<ctl_model, rt, pa_streams, wav_file, uiq, tt, key_down, ctlFrame>>

\* lines 703-705
sr_btn(x) ==
    /\ cthr[x].pc = "sr_btn"
    /\ ctl' = [ctl EXCEPT !.record_btn = FALSE, !.stop_btn = TRUE,
                          !.status = "Recording..."]
    /\ CtlGoto(x, "sr_prev")
    /\ UNCHANGED <<ctl_model, rt, pa_streams, wav_file, uiq, tt, key_down, ctlFrame>>

\* lines 707-708: cleanup_resources of a running RecordingThread, called on
\* the thread of the controller
sr_prev(x) ==
    /\ cthr[x].pc = "sr_prev"
    /\ IF HasRunning
       THEN LET w == ctl.recording_thread IN
            \E res \in cleanup_resources(w) :
                /\ rt' = [rt EXCEPT ![w] = res[1]]
                /\ pa_streams' = res[2]
                /\ cthr' = [cthr EXCEPT ![x] = [pc |-> "sr_wait", w |-> w]]
       ELSE /\ CtlGoto(x, "sr_new")
            /\ UNCHANGED <<rt, pa_streams>>
    /\ UNCHANGED <<ctl, ctl_model, wav_file, uiq, tt, key_down, ctlFrame>>

\* line 709: wait() returns when the thread has finished
sr_wait(x) ==
    /\ cthr[x].pc = "sr_wait"
    /\ ~isRunning(cthr[x].w)
    /\ cthr' = [cthr EXCEPT ![x] = [pc |-> "sr_new", w |-> None]]
    /\ UNCHANGED <<ctl, ctl_model, rt, pa_streams, wav_file, uiq, tt, key_down, ctlFrame>>

\* lines 712-729: a new RecordingThread with the configured source and
\* devices is made, connected and started
sr_new(x) ==
    /\ cthr[x].pc = "sr_new"
    /\ ctl.nrec + 1 \in RecIds
    /\ rec_start(ctl.nrec + 1)
    /\ ctl' = [ctl EXCEPT !.recording_thread = ctl.nrec + 1, !.nrec = @ + 1]
    /\ CtlGoto(x, "idle")
    /\ UNCHANGED <<ctl_model, pa_streams, wav_file, uiq, tt, key_down, ctlFrame>>

\* start_recording, lines 697-734
start_recording(x) ==
    \/ sr_check(x)
    \/ sr_set(x)
    \/ sr_btn(x)
    \/ sr_prev(x)
    \/ sr_wait(x)
    \/ sr_new(x)

\* lines 737-738
st_check(x) ==
    /\ cthr[x].pc = "st_check"
    /\ CtlGoto(x, IF ctl.is_recording THEN "st_set" ELSE "idle")
    /\ UNCHANGED <<ctl, ctl_model, rt, pa_streams, wav_file, uiq, tt, key_down, ctlFrame>>

\* line 741
st_set(x) ==
    /\ cthr[x].pc = "st_set"
    /\ ctl' = [ctl EXCEPT !.is_recording = FALSE]
    /\ CtlGoto(x, "st_stop")
    /\ UNCHANGED <<ctl_model, rt, pa_streams, wav_file, uiq, tt, key_down, ctlFrame>>

\* lines 742-743, and line 406 of the stop() they call
st_stop(x) ==
    /\ cthr[x].pc = "st_stop"
    /\ IF HasRunning
       THEN /\ rt' = [rt EXCEPT ![ctl.recording_thread].is_recording = FALSE]
            /\ cthr' = [cthr EXCEPT ![x] = [pc |-> "st_wait", w |-> ctl.recording_thread]]
       ELSE /\ CtlGoto(x, "st_btn")
            /\ UNCHANGED rt
    /\ UNCHANGED <<ctl, ctl_model, pa_streams, wav_file, uiq, tt, key_down, ctlFrame>>

\* line 407: the wait() of stop() returns when the thread has finished
st_wait(x) ==
    /\ cthr[x].pc = "st_wait"
    /\ ~isRunning(cthr[x].w)
    /\ cthr' = [cthr EXCEPT ![x] = [pc |-> "st_btn", w |-> None]]
    /\ UNCHANGED <<ctl, ctl_model, rt, pa_streams, wav_file, uiq, tt, key_down, ctlFrame>>

\* lines 745-748
st_btn(x) ==
    /\ cthr[x].pc = "st_btn"
    /\ ctl' = [ctl EXCEPT !.record_btn = TRUE, !.stop_btn = FALSE,
                          !.status = "Processing..."]
    /\ CtlGoto(x, "idle")
    /\ UNCHANGED <<ctl_model, rt, pa_streams, wav_file, uiq, tt, key_down, ctlFrame>>

\* stop_recording, lines 736-752
stop_recording(x) ==
    \/ st_check(x)
    \/ st_set(x)
    \/ st_stop(x)
    \/ st_wait(x)
    \/ st_btn(x)

\* the UI thread is in its event loop
UiIdle == cthr["ui"].pc = "idle"

\* the hook thread is between two key events
HookIdle == cthr["hook"].pc = "idle"

\* a click of the enabled record button: toggle_recording, lines 684-688
click_record ==
    /\ UiIdle
    /\ ctl.record_btn
    /\ IF ctl.is_recording
       THEN CtlGoto("ui", "st_check")
       ELSE CanStart /\ CtlGoto("ui", "sr_check")
    /\ CanInput /\ ctl' = [ctl EXCEPT !.inputs = @ + 1]
    /\ UNCHANGED <<ctl_model, rt, pa_streams, wav_file, uiq, tt, key_down, ctlFrame>>

\* a click of the enabled stop button, line 618
click_stop ==
    /\ UiIdle
    /\ ctl.stop_btn
    /\ CtlGoto("ui", "st_check")
    /\ CanInput /\ ctl' = [ctl EXCEPT !.inputs = @ + 1]
    /\ UNCHANGED <<ctl_model, rt, pa_streams, wav_file, uiq, tt, key_down, ctlFrame>>

\* a press event of the hotkey (the first one, or a repeat while the key is
\* held): handle_hotkey_press, lines 796-799
handle_hotkey_press ==
    /\ HookIdle
    /\ key_down' = TRUE
    /\ IF ctl.hotkey_pressed
       THEN UNCHANGED <<ctl, cthr>>
       ELSE /\ CanStart
            /\ CanInput
            /\ ctl' = [ctl EXCEPT !.hotkey_pressed = TRUE, !.inputs = @ + 1]
            /\ CtlGoto("hook", "sr_check")
    /\ UNCHANGED <<ctl_model, rt, pa_streams, wav_file, uiq, tt, ctlFrame>>

\* a release event of the hotkey, of the held key or a stray one:
\* handle_hotkey_release, lines 801-804
handle_hotkey_release ==
    /\ HookIdle
    /\ key_down' = FALSE
    /\ IF ctl.hotkey_pressed
       THEN /\ ctl' = [ctl EXCEPT !.hotkey_pressed = FALSE, !.inputs = @ + 1]
            /\ CtlGoto("hook", "st_check")
       ELSE UNCHANGED <<ctl, cthr>>
    /\ UNCHANGED <<ctl_model, rt, pa_streams, wav_file, uiq, tt, ctlFrame>>

\* ModelLoader.run as the controller sees it (lines 132-142): its one
\* model_ready signal, with a handle or with None, queued to the UI thread
ml_signal ==
    /\ ctl.loader = "running"
    /\ ctl' = [ctl EXCEPT !.loader = "done"]
    /\ \E h \in {None, 1} : uiq' = Append(uiq, ModelReady(h))
    /\ UNCHANGED <<ctl_model, cthr, rt, pa_streams, wav_file, tt, key_down, ctlFrame>>

\* the event loop of the UI thread takes the queued call of a slot
Deliver(sig) ==
    /\ UiIdle
    /\ uiq # <<>>
    /\ Head(uiq)[1] = sig
    /\ uiq' = Tail(uiq)

\* lines 467-477
handle_model_loaded ==
    /\ Deliver("model_ready")
    /\ IF Head(uiq)[2] # None
       THEN /\ ctl_model' = Head(uiq)[2]
            /\ ctl' = [ctl EXCEPT !.record_btn = TRUE, !.status = "Ready"]
       ELSE /\ ctl' = [ctl EXCEPT !.status = "Error loading model"]
            /\ UNCHANGED ctl_model
    /\ UNCHANGED <<cthr, rt, pa_streams, wav_file, tt, key_down, ctlFrame>>

\* __init__ of TranscriptionThread, lines 288-292, and start(); rec is the
\* RecordingThread whose recording_complete made it, calls the number of
\* calls of transcribe, segments the texts of the segments the model
\* produces, left the segments it still has to produce, events the number of
\* texts emitted and out the texts emitted
NewTranscription(model, w, remove_punctuation) ==
    [pc |-> "t_run", model |-> model, rec |-> w,
     remove_punctuation |-> remove_punctuation, calls |-> 0, segments |-> <<>>,
     left |-> 0, events |-> 0, out |-> <<>>, raised |-> FALSE]

\* lines 775-782
handle_recording_complete ==
    /\ Deliver("recording_complete")
    /\ tt' = Append(tt, NewTranscription(ctl_model, Head(uiq)[2],
                                         ctl.remove_punctuation))
    /\ ctl' = [ctl EXCEPT !.status = "Transcribing...",
                          !.transcription_thread = Len(tt) + 1]
    /\ UNCHANGED <<ctl_model, cthr, rt, pa_streams, wav_file, key_down, ctlFrame>>

\* lines 754-761
handle_recording_error ==
    /\ Deliver("error_occurred")
    /\ ctl' = [ctl EXCEPT !.status = "Error", !.record_btn = TRUE,
                          !.stop_btn = FALSE, !.is_recording = FALSE,
                          !.hotkey_pressed = FALSE]
    /\ UNCHANGED <<ctl_model, cthr, rt, pa_streams, wav_file, tt, key_down, ctlFrame>>

\* lines 784-788
handle_transcription ==
    /\ Deliver("transcription_complete")
    /\ ctl' = [ctl EXCEPT !.status = "Ready", !.record_btn = TRUE]
    /\ UNCHANGED <<ctl_model, cthr, rt, pa_streams, wav_file, tt, key_down, ctlFrame>>

----------------------------------------------------------------------------
(* TranscriptionThread, lines 285-300 *)

\* texts as sequences of character codes: "Hello, world!", "Bye." and
\* "a-b  c?"
Texts ==
    << <<72, 101, 108, 108, 111, 44, 32, 119, 111, 114, 108, 100, 33>>,
       <<66, 121, 101, 46>>,
       <<97, 45, 98, 32, 32, 99, 63>> >>

\* what the model hears in a chunk of the file
ChunkText(c) == Texts[((c - 1) % Len(Texts)) + 1]

\* the segment sequences the model can produce for the frames of a file: the
\* texts of its first chunks, at most MaxSegments of them
Transcripts(frames) ==
    { [k \in 1..n |-> ChunkText(frames[k])] :
        n \in 0..(IF Len(frames) < MaxSegments THEN Len(frames) ELSE MaxSegments) }

\* string.punctuation with the blank added
punctuation_and_blank ==
    (32..47) \cup (58..64) \cup (91..96) \cup (123..126)

\* string.punctuation, the characters str.maketrans('', '', ...) maps to
\* None (line 299): !"#$%&'()*+,-./ :;<=>?@ [\]^_` {|}~
punctuation ==
    (33..47) \cup (58..64) \cup (91..96) \cup (123..126)

RECURSIVE translate(_, _)
\* text.translate(table), line 299: character by character, a character the
\* table maps to None is dropped and any other is kept
translate(text, deleted) ==
    IF text = <<>> THEN <<>>
    ELSE (IF Head(text) \in deleted THEN <<>> ELSE <<Head(text)>>)
         \o translate(Tail(text), deleted)

\* lines 297-299: the text emitted for a segment
EmittedText(t, text) ==
    IF t.remove_punctuation THEN translate(text, punctuation) ELSE text

\* line 295: self.model.transcribe(self.filename) gives a lazy sequence of
\* segments, or raises (as it does on a model of None, or without the file)
t_run(i) ==
    /\ i \in DOMAIN tt
    /\ tt[i].pc = "t_run"
    /\ \/ /\ tt[i].model # None
          /\ wav_file.exists
          /\ \E segs \in Transcripts(wav_file.frames) :
               tt' = [tt EXCEPT ![i].calls = @ + 1, ![i].segments = segs,
                                ![i].left = Len(segs), ![i].pc = "t_emit"]
       \/ /\ tt[i].model = None \/ ~wav_file.exists \/ CanFail
          /\ tt' = [tt EXCEPT ![i].calls = IF tt[i].model = None THEN @ ELSE @ + 1,
                              ![i].raised = TRUE, ![i].pc = "finished"]
    /\ UNCHANGED <<ctl, ctl_model, cthr, rt, pa_streams, wav_file, uiq, key_down, ctlFrame>>

\* the segments emitted last first
t_emit_backwards(i) ==
    /\ i \in DOMAIN tt
    /\ tt[i].pc = "t_emit"
    /\ IF tt[i].left = 0
       THEN /\ tt' = [tt EXCEPT ![i].pc = "finished"]
            /\ UNCHANGED uiq
       ELSE /\ tt' = [tt EXCEPT ![i].left = @ - 1, ![i].events = @ + 1,
                                ![i].out = Append(@, EmittedText(tt[i],
                                              tt[i].segments[tt[i].left]))]
            /\ uiq' = Append(uiq, <<"transcription_complete", i>>)
    /\ UNCHANGED <<ctl, ctl_model, cthr, rt, pa_streams, wav_file, key_down, ctlFrame>>

\* lines 296-300: the next segment is produced and its text emitted, the
\* sequence ends, or producing the segment raises
t_emit(i) ==
    /\ i \in DOMAIN tt
    /\ tt[i].pc = "t_emit"
    /\ IF tt[i].left = 0
       THEN /\ tt' = [tt EXCEPT ![i].pc = "finished"]
            /\ UNCHANGED uiq
       ELSE \/ /\ tt' = [tt EXCEPT ![i].left = @ - 1, ![i].events = @ + 1,
                                   ![i].out = Append(@, EmittedText(tt[i],
                                                 tt[i].segments[tt[i].events + 1]))]
               /\ uiq' = Append(uiq, <<"transcription_complete", i>>)
            \/ /\ CanFail
               /\ tt' = [tt EXCEPT ![i].raised = TRUE, ![i].pc = "finished"]
               /\ UNCHANGED uiq
    /\ UNCHANGED <<ctl, ctl_model, cthr, rt, pa_streams, wav_file, key_down, ctlFrame>>

\* TranscriptionThread.run of the i-th thread made: each recording_complete
\* makes one, so there are at most as many as RecordingThreads
TranscriptionThread_run(i) ==
    \/ t_run(i)
    \/ t_emit(i)

----------------------------------------------------------------------------
(* The controller with its threads *)

\* the input source and the device ids of the config, lines 712-714
Configs ==
    { <<"microphone", 1, None>>, <<"microphone", None, None>> }

InitCtl ==
    /\ instance = None
    /\ lock = None
    /\ cache = <<>>
    /\ cache_file = Absent
    /\ handles = <<>>
    /\ th = <<>>
    /\ ctl_model = None
    /\ \E c \in Configs : rt = [w \in RecIds |-> NewRec(c[1], c[2], c[3])]
    /\ pa_streams = <<>>
    /\ wav_file = NoFile
    /\ stopper = "idle"
    /\ ctl = NewCtl
    /\ uiq = <<>>
    /\ cthr = [x \in CtlThreads |-> IdleCtl]
    /\ tt = <<>>
    /\ key_down = FALSE
    /\ InitSettings({EmptyDict})

NextCtl ==
    \/ ml_signal
    \/ handle_model_loaded
    \/ click_record
    \/ click_stop
    \/ handle_hotkey_press
    \/ handle_hotkey_release
    \/ \E x \in CtlThreads : start_recording(x) \/ stop_recording(x)
    \/ handle_recording_complete
    \/ handle_recording_error
    \/ handle_transcription
    \/ \E w \in RecIds : RecordingThread_run(w)
    \/ \E i \in RecIds : TranscriptionThread_run(i)

SpecCtl == InitCtl /\ [][NextCtl]_vars

----------------------------------------------------------------------------
(* One TranscriptionThread on a waveform file *)

\* the files a transcription can find: none, or one with some chunks, each
\* named by a number
TransFiles ==
    {NoFile} \cup
    { [exists |-> TRUE, frames |-> f, nchannels |-> Channels,
       sampwidth |-> get_sample_size("Int16"), framerate |-> Rate] :
        f \in UNION { [1..n -> 1..Len(Texts)] : n \in 0..MaxSegments } }

InitTrans ==
    /\ instance = None
    /\ lock = None
    /\ cache = <<>>
    /\ cache_file = Absent
    /\ handles = <<>>
    /\ th = <<>>
    /\ ctl_model = None
    /\ rt = [w \in RecIds |-> NewRec("microphone", 1, None)]
    /\ pa_streams = <<>>
    /\ wav_file \in TransFiles
    /\ stopper = "idle"
    /\ ctl = NewCtl
    /\ uiq = <<>>
    /\ cthr = [x \in CtlThreads |-> IdleCtl]
    /\ \E m \in {None, 1}, p \in BOOLEAN : tt = <<NewTranscription(m, W1, p)>>
    /\ key_down = FALSE
    /\ InitSettings({EmptyDict})

NextTrans ==
    \E i \in RecIds : TranscriptionThread_run(i)

SpecTrans == InitTrans /\ [][NextTrans]_vars

----------------------------------------------------------------------------
(* Claims about TranscriptionThread, under SpecTrans *)

\* C17: in every TranscriptionThread run transcribe is called once, the
\* texts emitted so far are, in order, those of a prefix of the model's
\* segments with one transcription_complete event each and no other event,
\* and the prefix is the whole sequence when the run ends without an
\* exception.
C17_EventsArePrefixOfSegments ==
    \A i \in DOMAIN tt :
        /\ tt[i].calls <= 1
        /\ (tt[i].pc # "t_run" /\ tt[i].model # None) => tt[i].calls = 1
        /\ Len(tt[i].out) <= Len(tt[i].segments)
        /\ \A k \in 1..Len(tt[i].out) :
             tt[i].out[k] = EmittedText(tt[i], tt[i].segments[k])
        /\ (tt[i].pc = "finished" /\ ~tt[i].raised)
           => Len(tt[i].out) = Len(tt[i].segments)
        /\ uiq = [k \in 1..Len(tt[i].out) |-> <<"transcription_complete", i>>]

\* a run of two different segments was ended by an exception after its
\* first event
C17_Witness ==
    \E i \in DOMAIN tt :
        /\ tt[i].pc = "finished"
        /\ tt[i].raised
        /\ Len(tt[i].segments) = 2
        /\ tt[i].segments[1] # tt[i].segments[2]
        /\ Len(tt[i].out) = 1
        /\ Len(uiq) = 1

\* an ASCII punctuation character: !"#$%&'()*+,-./ :;<=>?@ [\]^_` {|}~
IsAsciiPunctuation(c) ==
    \/ c >= 33 /\ c <= 47
    \/ c >= 58 /\ c <= 64
    \/ c >= 91 /\ c <= 96
    \/ c >= 123 /\ c <= 126

NotAsciiPunctuation(c) == ~IsAsciiPunctuation(c)

\* "Hello, world!", "Hello world", "Bye." and "Bye"
HelloWorldBang == <<72, 101, 108, 108, 111, 44, 32, 119, 111, 114, 108, 100, 33>>

HelloWorld == <<72, 101, 108, 108, 111, 32, 119, 111, 114, 108, 100>>

ByeDot == <<66, 121, 101, 46>>

Bye == <<66, 121, 101>>

\* C18: with remove_punctuation set each emitted text is the segment text
\* without its ASCII punctuation characters, every other character (blanks
\* included) kept in order, so "Hello, world!" and "Bye." are emitted as
\* "Hello world" and "Bye"; with remove_punctuation unset the segment text is
\* emitted unchanged.
C18_PunctuationRemoved ==
    \A i \in DOMAIN tt : \A k \in 1..Len(tt[i].out) :
        IF tt[i].remove_punctuation
        THEN /\ tt[i].out[k] = SelectSeq(tt[i].segments[k], NotAsciiPunctuation)
             /\ tt[i].segments[k] = HelloWorldBang => tt[i].out[k] = HelloWorld
             /\ tt[i].segments[k] = ByeDot => tt[i].out[k] = Bye
        ELSE tt[i].out[k] = tt[i].segments[k]

\* the spec's example: the two segments emitted with remove_punctuation set
C18_Witness ==
    \E i \in DOMAIN tt :
        /\ tt[i].remove_punctuation
        /\ tt[i].segments = <<HelloWorldBang, ByeDot>>
        /\ tt[i].out = <<HelloWorld, Bye>>

----------------------------------------------------------------------------
(* Claims about the controller, under SpecCtl *)

\* C6: a TranscriptionThread is started only when the RecordingThread whose
\* recording_complete made it has finished its run, cleanup included, whether
\* the stop came from the Stop button or from a release of the hotkey.
C6_TranscriptionAfterRecordingFinished ==
    [][\A i \in DOMAIN tt' :
          i \notin DOMAIN tt => rt[tt'[i].rec].pc = "finished"]_vars

\* RecordingThread w is in its capture loop or writes the waveform file
\* (lines 358-380)
Capturing(w) == rt[w].pc \in {"r_loop", "r_read", "r_close", "r_save"}

\* the i-th TranscriptionThread is in its run
Transcribing(i) == i \in DOMAIN tt /\ tt[i].pc \in {"t_run", "t_emit"}

\* C11: in every state of the controller no RecordingThread captures or
\* writes the waveform file while a TranscriptionThread is running on that
\* file, and at most one TranscriptionThread is running.
C11_NoRecordingDuringTranscription ==
    /\ \A w \in RecIds, i \in RecIds : ~(Capturing(w) /\ Transcribing(i))
    /\ Cardinality({ i \in RecIds : Transcribing(i) }) <= 1

\* handle_model_loaded has run with a model of None (lines 473-475)
LoadFailed ==
    /\ ctl.loader = "done"
    /\ ctl_model = None
    /\ \A k \in DOMAIN uiq : uiq[k][1] # "model_ready"

\* C12: once the ModelLoader has reported a load failure the record button
\* is disabled in every later state, whatever hotkey, recording and
\* transcription events follow.
C12_RecordDisabledAfterLoadFailure ==
    LoadFailed => ~ctl.record_btn

\* C13: while the worker of a recording session is running, its audio
\* streams and its audio API instance are touched by no step of the
\* controller (UI thread or hook thread): only the worker's own steps close
\* its streams or terminate its audio API instance.
C13_AudioOwnedByWorker ==
    [][\A w \in RecIds :
          (isRunning(w) /\ cthr' # cthr)
          => (/\ rt'[w].audio = rt[w].audio
              /\ rt'[w].streams = rt[w].streams
              /\ \A st \in OpenedBy(w) : pa_streams'[st] = pa_streams[st])]_vars

\* C25: a TranscriptionThread is never started with a null model handle:
\* every TranscriptionThread handle_recording_complete has made holds the
\* handle of a successful load.
C25_TranscriptionHasModel ==
    \A i \in DOMAIN tt : tt[i].model # None

\* C26: at most one RecordingThread is running at any time, whatever the
\* interleaving of start_recording and stop_recording on the UI thread and on
\* the keyboard hook thread.
C26_OneRecordingThread ==
    Cardinality({ w \in RecIds : isRunning(w) }) <= 1

\* nothing is left to happen without a new input of the user: the model
\* load has been reported, no signal is queued, no controller code runs and
\* every recording and transcription thread made has finished
Quiescent ==
    /\ ctl.loader = "done"
    /\ uiq = <<>>
    /\ \A x \in CtlThreads : cthr[x] = IdleCtl
    /\ \A w \in RecIds : ~isRunning(w)
    /\ \A i \in DOMAIN tt : tt[i].pc = "finished"

\* C28: after a recording session the user stopped, the controller returns
\* to a resting status: once nothing is left to happen, the status is not
\* "Processing..." and not "Transcribing...".
C28_RestingStatus ==
    Quiescent => ctl.status \notin {"Processing...", "Transcribing..."}

\* C29: while the hotkey is held, a further press event does not invoke
\* start_recording, also when the session the first press started has failed
\* with a recording error in the meantime; and a release event that no press
\* preceded does not invoke stop_recording.
C29_OneStartPerHold ==
    [][/\ (HookIdle /\ key_down) => cthr'["hook"].pc # "sr_check"
       /\ (HookIdle /\ ~key_down) => cthr'["hook"].pc # "st_check"]_vars

\* ------------------------------------------------------------------
\* The numeric audio settings: update_channels, update_rate, update_chunk
\* ------------------------------------------------------------------

\* what a user can leave in an input field, as character codes:
\* " 12 ", " -1", "1_0", "abc", "" and "1.5"
InputTexts ==
    { <<32, 49, 50, 32>>, <<32, 45, 49>>, <<49, 95, 48>>,
      <<97, 98, 99>>, <<>>, <<49, 46, 53>> }

\* the dicts config.json holds when the program starts (load_config,
\* lines 26-30): without the three keys, or with each of them
StartConfigs ==
    { EmptyDict,
      [k \in SettingKeys |->
          IF k = "channels" THEN 2 ELSE IF k = "rate" THEN 44100 ELSE 512] }

\* str.isspace for the ASCII characters
IsSpace(c) == c \in {9, 10, 11, 12, 13, 32}

IsDigit(c) == c \in 48..57

RECURSIVE lstrip(_)
lstrip(s) == IF s # <<>> /\ IsSpace(Head(s)) THEN lstrip(Tail(s)) ELSE s

RECURSIVE rstrip(_)
rstrip(s) ==
    IF s # <<>> /\ IsSpace(s[Len(s)]) THEN rstrip(SubSeq(s, 1, Len(s) - 1)) ELSE s

\* the result of int(text) when the text is no integer literal
ValueError == [ok |-> FALSE, value |-> 0]

RECURSIVE ParseDigits(_, _, _)
\* the digits of a decimal literal, single underscores allowed between
\* digits; acc is the value so far, -1 says the text is no literal
ParseDigits(s, acc, afterDigit) ==
    IF s = <<>> THEN (IF afterDigit THEN acc ELSE 0 - 1)
    ELSE IF IsDigit(Head(s))
         THEN ParseDigits(Tail(s), (acc * 10) + (Head(s) - 48), TRUE)
    ELSE IF /\ Head(s) = 95
            /\ afterDigit
            /\ Tail(s) # <<>>
            /\ IsDigit(Head(Tail(s)))
         THEN ParseDigits(Tail(s), acc, FALSE)
    ELSE 0 - 1

\* int(text) of lines 639, 650 and 661: surrounding whitespace is dropped,
\* one sign is allowed, then decimal digits; anything else is a ValueError
int(text) ==
    LET s == rstrip(lstrip(text))
        signed == s # <<>> /\ Head(s) \in {43, 45}
        v == ParseDigits(IF signed THEN Tail(s) ELSE s, 0, FALSE)
    IN  IF v < 0 THEN ValueError
        ELSE [ok |-> TRUE, value |-> IF signed /\ Head(s) = 45 THEN 0 - v ELSE v]

\* config[k] = v
DictPut(d, k, v) == [x \in DOMAIN d \cup {k} |-> IF x = k THEN v ELSE d[x]]

\* the user's editing of one of the three input fields (lines 519-521): the
\* field gets the focus and a text, which may be the text it had. No other
\* field is edited before this one has emitted editingFinished, which a
\* QLineEdit does when it loses the focus or Return is pressed
edit_field(k, t) ==
    /\ CanInput
    /\ editing = "none"
    /\ fields' = [fields EXCEPT ![k] = t]
    /\ editing' = k
    /\ ctl' = [ctl EXCEPT !.inputs = @ + 1]
    /\ UNCHANGED <<config, config_file, settings, save_faults>>
    /\ UNCHANGED <<cacheVars, recVars, uiq, cthr, tt, key_down>>

\* Return pressed in a field whose text the user did not change
press_return(k) == edit_field(k, fields[k])

\* save_config(new_config), lines 32-35, when it returns: the file holds the
\* dict as JSON
save_config_returns(new_config) ==
    /\ config_file' = JsonFile(new_config)
    /\ UNCHANGED save_faults

\* save_config(new_config) when it raises: open(config_path, 'w') fails and
\* the file is as it was (line 34), or json.dump fails after the open has
\* truncated the file (line 35)
save_config_raises(new_config) ==
    /\ save_faults < MaxFaults
    /\ save_faults' = save_faults + 1
    /\ config_file' \in {config_file, BrokenFile}

\* the shape a handler without the save_config call of its line 641, 652
\* or 663 would have
update_setting_unsaved(k) ==
    LET r == int(fields[k]) IN
    /\ editing = k
    /\ editing' = "none"
    /\ \/ /\ r.ok
          /\ config' = DictPut(config, k, r.value)
          /\ settings' = [settings EXCEPT ![k] = r.value]
          /\ UNCHANGED <<config_file, save_faults, fields>>
       \/ /\ ~r.ok
          /\ fields' = [fields EXCEPT ![k] = str(DictGet(config, k, Default(k)))]
          /\ UNCHANGED <<config, config_file, settings, save_faults>>
    /\ UNCHANGED <<cacheVars, recVars, ctl, uiq, cthr, tt, key_down>>

\* the common body of update_channels, update_rate and update_chunk (lines
\* 637-668) for the setting k: parse the field; store the number in config,
\* save config and only then assign the attribute; on ValueError put
\* str(config.get(k, default)) back into the field. An exception of
\* save_config is not a ValueError and leaves the handler after line 641.
\* The handler is the slot of the field's editingFinished (lines 622-624)
update_setting(k) ==
    LET r == int(fields[k]) IN
    /\ editing = k
    /\ editing' = "none"
    /\ \/ /\ r.ok
          /\ config' = DictPut(config, k, r.value)
          /\ \/ /\ save_config_returns(config')
                /\ settings' = [settings EXCEPT ![k] = r.value]
             \/ /\ save_config_raises(config')
                /\ UNCHANGED settings
          /\ UNCHANGED fields
       \/ /\ ~r.ok
          /\ fields' = [fields EXCEPT ![k] = str(DictGet(config, k, Default(k)))]
          /\ UNCHANGED <<config, config_file, settings, save_faults>>
    /\ UNCHANGED <<cacheVars, recVars, ctl, uiq, cthr, tt, key_down>>

update_channels == update_setting("channels")

update_rate == update_setting("rate")

update_chunk == update_setting("chunk")

\* the controller with its settings panel, nothing else running
InitConfig ==
    /\ instance = None
    /\ lock = None
    /\ cache = <<>>
    /\ cache_file = Absent
    /\ handles = <<>>
    /\ th = <<>>
    /\ ctl_model = None
    /\ rt = [w \in RecIds |-> NewRec("microphone", 1, None)]
    /\ pa_streams = <<>>
    /\ wav_file = NoFile
    /\ stopper = "idle"
    /\ ctl = NewCtl
    /\ uiq = <<>>
    /\ cthr = [x \in CtlThreads |-> IdleCtl]
    /\ tt = <<>>
    /\ key_down = FALSE
    /\ InitSettings(StartConfigs)

NextConfig ==
    \/ \E k \in SettingKeys, t \in InputTexts : edit_field(k, t)
    \/ \E k \in SettingKeys : press_return(k)
    \/ update_channels
    \/ update_rate
    \/ update_chunk

SpecConfig == InitConfig /\ [][NextConfig]_vars

\* the entered texts that are no integer: "abc", "" and "1.5"
NonIntegerTexts == { <<97, 98, 99>>, <<>>, <<49, 46, 53>> }

\* the decimal text of each number a setting can hold here: "1", "16000",
\* "1024", "2", "44100", "512", "12", "-1" and "10"
DecimalTexts ==
    { << <<49>>, 1 >>, << <<49, 54, 48, 48, 48>>, 16000 >>,
      << <<49, 48, 50, 52>>, 1024 >>, << <<50>>, 2 >>,
      << <<52, 52, 49, 48, 48>>, 44100 >>, << <<53, 49, 50>>, 512 >>,
      << <<49, 50>>, 12 >>, << <<45, 49>>, 0 - 1 >>, << <<49, 48>>, 10 >> }

\* the entered texts that are an integer, with the integer: the decimal
\* texts, and " 12 ", " -1" and "1_0"
IntegerTexts ==
    DecimalTexts \cup
    { << <<32, 49, 50, 32>>, 12 >>, << <<32, 45, 49>>, 0 - 1 >>,
      << <<49, 95, 48>>, 10 >> }

\* C32: when the handler of channels, rate or chunk runs on a field whose text
\* is no integer, the in-memory setting, the config map and the config file
\* stay as they were and the field shows the configured value (the default
\* if the key is not configured); when the text is an integer and the save
\* of the config does not fail, the config map, the config file and the
\* in-memory setting all hold that integer for the key and the other
\* entries of the config map are as before.
C32_InvalidRevertsValidUpdatesAll ==
    [][\A k \in SettingKeys :
          update_setting(k) =>
             IF fields[k] \in NonIntegerTexts
             THEN /\ settings' = settings
                  /\ config' = config
                  /\ config_file' = config_file
                  /\ \E e \in DecimalTexts :
                        /\ e[2] = DictGet(config, k, Default(k))
                        /\ fields' = [fields EXCEPT ![k] = e[1]]
             ELSE \E e \in IntegerTexts :
                     /\ e[1] = fields[k]
                     /\ save_faults' = save_faults =>
                           /\ k \in DOMAIN config' /\ config'[k] = e[2]
                           /\ \A x \in DOMAIN config \ {k} :
                                 x \in DOMAIN config' /\ config'[x] = config[x]
                           /\ config_file' = JsonFile(config')
                           /\ settings' = [settings EXCEPT ![k] = e[2]]
                           /\ fields' = fields]_vars

\* " 12 " was entered for the rate and the map, the file and the attribute
\* hold 12, while the channels field was put back to the configured "-1"
\* after a text that is no integer
C32_Witness ==
    /\ fields["rate"] = <<32, 49, 50, 32>>
    /\ settings["rate"] = 12
    /\ "rate" \in DOMAIN config /\ config["rate"] = 12
    /\ config_file = JsonFile(config)
    /\ fields["channels"] = <<45, 49>>
    /\ "channels" \in DOMAIN config /\ config["channels"] = 0 - 1
    /\ settings["channels"] # 0 - 1
====
